---- MODULE Spec2Model ----
(***************************************************************************)
(* Model of the gallery front end's authenticated HTTP client:             *)
(*   src/src/services/userAxiosInstance.ts  (apiClient, its request and    *)
(*       response interceptors, isTokenExpired, refreshAccessToken)        *)
(*   src/src/stores/userAuthStore.ts        (useAuthStore: setAuth, logout,*)
(*       persisted under the key auth-store)                               *)
(*   src/src/services/userApi.ts            (SignIn, VerifyCode)           *)
(*                                                                         *)
(* The browser runs one event loop: every step below is what one handler   *)
(* does between two network waits.  The server is the environment: each    *)
(* answer is a nondeterministic choice.                                    *)
(***************************************************************************)
EXTENDS Integers, Sequences, FiniteSets, TLC

\* ------------------------------------------------------------ bounds
MaxReqs == 1     \* requests in flight through apiClient at once (Spec)
MaxConc == 2     \* the same under SpecConc, the concurrent specification
MaxTok  == 1     \* access tokens the server issues
MaxTime == 2     \* clock ticks (seconds)
MaxImages == 3   \* images in the user's gallery

\* The slots a logical request can occupy; Spec leaves those above MaxReqs
\* switched off.
Reqs == 1..MaxConc

\* ------------------------------------------------------------ values
\* An access token: id is the token string's identity, kind says how
\* jwtDecode sees it ("jwt": payload with exp; "noexp": payload without exp;
\* "garbage": jwtDecode throws), exp is the payload's exp in seconds.
NoToken == [id |-> 0, kind |-> "absent", exp |-> 0]

Token(i, k, e) == [id |-> i, kind |-> k, exp |-> e]

Null    == "null"        \* JavaScript null (email)
NoEmail == ""            \* setAuth called without its email argument
UserEmail == "u@x"

NoBlob == [present |-> FALSE, isAuthenticated |-> FALSE, email |-> Null]

VARIABLES
  localStorage,   \* [accessToken, userEmail, authStore]: the three keys
  store,          \* useAuthStore state: [isAuthenticated, email]
  now,            \* Date.now() / 1000
  nextId,         \* id of the next token the server issues
  location,       \* window.location.href / router location
  req,            \* req[r]: one logical request through apiClient
  home,           \* HomePage's React state
  server          \* the gallery as the server holds it: ids in their order

vars == <<localStorage, store, now, nextId, location, req, home, server>>

\* Ground truth, independent of the client's check: the token carries an
\* exp that lies in the past.
Stale(tok, t) == tok.kind = "jwt" /\ tok.exp <= t

\* ------------------------------------------------------------ log events
\* req[r].log is the history of one logical request: what the interceptors
\* read, every network call, every answer, every side effect.
Ev(e, tok, t) == [ev |-> e, tok |-> tok, stale |-> Stale(tok, t)]

\* ------------------------------------------------------------ session store
\* The world the handlers mutate: w.ls is localStorage, w.store the zustand
\* state, w.loc the browser location.
World == [ls |-> localStorage, store |-> store, loc |-> location,
          home |-> home, server |-> server]

\* persist middleware (name: 'auth-store'): every set() of the store writes
\* the serialized state back under the key auth-store.
Persist(w) ==
  [w EXCEPT !.ls.authStore = [present |-> TRUE,
                              isAuthenticated |-> w.store.isAuthenticated,
                              email |-> w.store.email]]

\* setAuth(auth, email?)
setAuth(w, auth, email) ==
  LET w1 == IF email # NoEmail
            THEN [w EXCEPT !.store.email = email, !.ls.userEmail = email]
            ELSE w
  IN Persist([w1 EXCEPT !.store.isAuthenticated = auth])

\* Mutant: the keys are removed but the in-memory session is left as it was.
logoutTeardown_keepSession(w) ==
  [w EXCEPT !.ls.authStore = NoBlob,
            !.ls.accessToken = NoToken,
            !.ls.userEmail = Null]

\* The body of logout() after `await apiClient.post('/logout')` resolved.
logoutTeardown(w) ==
  LET w1 == [w EXCEPT !.ls.authStore = NoBlob,
                      !.ls.accessToken = NoToken,
                      !.ls.userEmail = Null]
  IN Persist([w1 EXCEPT !.store = [isAuthenticated |-> FALSE, email |-> Null]])

\* ------------------------------------------------------------ token expiry
\* Mutant: `<` for `<=`, a token whose exp is now passes as valid.
isTokenExpired_strict(token, t) ==
  CASE token.kind = "garbage" -> TRUE
    [] token.kind = "noexp"   -> FALSE
    [] OTHER                  -> token.exp < t

\* Mutant: a token that cannot be decoded passes as valid (fails open).
isTokenExpired_failOpen(token, t) ==
  CASE token.kind = "garbage" -> FALSE
    [] token.kind = "noexp"   -> FALSE
    [] OTHER                  -> token.exp <= t

\* isTokenExpired(token): jwtDecode throws on garbage -> true; a payload
\* without exp gives `undefined <= currentTime`, which is false in JavaScript.
isTokenExpired(token, t) ==
  CASE token.kind = "garbage" -> TRUE
    [] token.kind = "noexp"   -> FALSE
    [] OTHER                  -> token.exp <= t

\* ------------------------------------------------------------ refresh
\* An answer to POST /refresh-token: ok = axios resolved (2xx, in time);
\* success and accessToken are the body's fields (NoToken: empty or missing).
RefreshAnswer(ok, success, tok) == [ok |-> ok, success |-> success, accessToken |-> tok]

\* Mutant: a failed refresh drops the stored token itself.
refreshAccessToken_clearsOnFailure(w, ans) ==
  IF ans.ok /\ ans.success /\ ans.accessToken # NoToken
  THEN [w   |-> setAuth([w EXCEPT !.ls.accessToken = ans.accessToken], TRUE, NoEmail),
        ret |-> ans.accessToken]
  ELSE [w |-> [w EXCEPT !.ls.accessToken = NoToken], ret |-> NoToken]

\* refreshAccessToken() from the answer on: the new world and the value
\* returned (NoToken stands for null).  Whatever is thrown inside (an error
\* status, no answer, a body that cannot be read) is caught and gives null.
refreshAccessToken(w, ans) ==
  IF ans.ok /\ ans.success /\ ans.accessToken # NoToken
  THEN [w   |-> setAuth([w EXCEPT !.ls.accessToken = ans.accessToken], TRUE, NoEmail),
        ret |-> ans.accessToken]
  ELSE [w |-> w, ret |-> NoToken]

\* ------------------------------------------------------------ requests
\* One logical request: pc is where its promise chain waits, kind what the
\* caller does with the result ("logout": the rest of logout() follows),
\* hdr the Authorization header of its config, retry the config's _retry.
\* ret holds what the awaited refreshAccessToken() returned, body what the
\* caller passed: the imageOrder array of /change-order, the id of
\* /delete-image/:id, nothing otherwise.
NewReq == [pc |-> "idle", kind |-> "api", hdr |-> NoToken, retry |-> FALSE,
           ret |-> NoToken, log |-> <<>>, result |-> "none", body |-> <<>>]

\* A slot no request is ever issued in.
OffReq == [NewReq EXCEPT !.pc = "off"]

Logged(q, e, tok, t) == [q EXCEPT !.log = Append(@, Ev(e, tok, t))]

\* The error an answer to the request itself rejects with: its HTTP status
\* (0: no response, a network error or the 10 s timeout) and what the caller
\* sees of it.
HttpError(status) ==
  [status |-> status,
   code   |-> CASE status = 401 -> "401"
                [] status = 0   -> "network"
                [] OTHER        -> "http"]

\* new Error('Session expired. Please login again.'): no response, no config.
SessionExpired == [status |-> 0, code |-> "expired"]

\* ------------------------------------------------------------ gallery page
\* Images are known by their _id, 1..MaxImages; NoImage is null / undefined.
ImageIds == 1..MaxImages

NoImage == 0

Range(f) == {f[i] : i \in DOMAIN f}

\* useState initial values of HomePage.
HomeInit ==
  [images |-> <<>>, isOrderChanged |-> FALSE, selectedImage |-> NoImage,
   isDeleteModalOpen |-> FALSE, isLoading |-> FALSE, errors |-> ""]

\* Array.prototype.findIndex on the _id: zero-based, -1 when none matches.
findIndex(list, id) ==
  IF \E i \in DOMAIN list : list[i] = id
  THEN (CHOOSE i \in DOMAIN list :
          list[i] = id /\ \A j \in 1..(i - 1) : list[j] # id) - 1
  ELSE -1

\* Where splice(start, ...) begins: a negative start counts from the end.
spliceStart(list, start) ==
  IF start < 0
  THEN (IF Len(list) + start < 0 THEN 0 ELSE Len(list) + start)
  ELSE (IF start > Len(list) THEN Len(list) ELSE start)

\* list.splice(start, 1): what is left and what was removed.
spliceOut(list, start) ==
  LET k == spliceStart(list, start)
  IN IF k < Len(list)
     THEN [rest    |-> SubSeq(list, 1, k) \o SubSeq(list, k + 2, Len(list)),
           removed |-> list[k + 1]]
     ELSE [rest |-> list, removed |-> NoImage]

\* list.splice(start, 0, x).
spliceIn(list, start, x) ==
  LET k == spliceStart(list, start)
  IN SubSeq(list, 1, k) \o <<x>> \o SubSeq(list, k + 1, Len(list))

\* Mutant: the dragged image is put back where it came from and the target
\* is overwritten.
handleDragEnd_overwrites(h, active, over) ==
  IF over = NoImage
  THEN h
  ELSE IF active # over
       THEN [h EXCEPT !.images = [i \in DOMAIN h.images |->
                                    IF h.images[i] = over THEN active ELSE h.images[i]],
                      !.isOrderChanged = TRUE]
       ELSE h

\* handleDragEnd(event): over is null when the drop hits no image, and then
\* `over.id` throws before anything is set.
handleDragEnd(h, active, over) ==
  IF over = NoImage
  THEN h
  ELSE IF active # over
       THEN LET oldIndex == findIndex(h.images, active)
                newIndex == findIndex(h.images, over)
                cut      == spliceOut(h.images, oldIndex)
            IN [h EXCEPT !.images = spliceIn(cut.rest, newIndex, cut.removed),
                         !.isOrderChanged = TRUE]
       ELSE h

\* Mutant: the order sent is the position counted from one.
imageOrder_oneBased(images) ==
  [i \in DOMAIN images |-> [id |-> images[i], order |-> i]]

\* images.map((image, index) => ({_id: image._id, order: index})).
imageOrder(images) ==
  [i \in DOMAIN images |-> [id |-> images[i], order |-> i - 1]]

\* The ids of an imageOrder array, by ascending order.
byOrder(body) ==
  [k \in DOMAIN body |-> (CHOOSE e \in Range(body) : e.order = k - 1).id]

\* The server accepts POST /change-order: the images it holds take the order
\* sent; one it holds that was not named stays behind them.
changeOrder(srv, body) ==
  LET named == SelectSeq(byOrder(body), LAMBDA i : i \in Range(srv))
  IN named \o SelectSeq(srv, LAMBDA i : i \notin Range(named))

\* Mutant: the save button is hidden whatever the answer was.
saveSettled_alwaysSaved(h, result) == [h EXCEPT !.isOrderChanged = FALSE]

\* handleSaveOrder after `await updateImageOrder(imageOrder)`: the wrapper
\* returns response.data, or undefined when apiClient rejected, and then
\* `response.success` throws into the catch.
saveSettled(h, result) ==
  CASE result = "ok"      -> [h EXCEPT !.isOrderChanged = FALSE]
    [] result = "refused" -> [h EXCEPT !.errors = "Failed to save image order"]
    [] OTHER              -> [h EXCEPT !.errors = "An error occurred while saving image order"]

\* Mutant: the image leaves the list whatever the answer was.
deleteSettled_optimistic(h, result, id) ==
  [h EXCEPT !.images = SelectSeq(@, LAMBDA i : i # id),
            !.isDeleteModalOpen = FALSE,
            !.selectedImage = NoImage]

\* handleConfirmDelete after `await deleteImage(selectedImage._id)`; id is
\* the selectedImage the handler was called with.
deleteSettled(h, result, id) ==
  LET h1 == IF result = "ok"
            THEN [h EXCEPT !.images = SelectSeq(@, LAMBDA i : i # id)]
            ELSE h
  IN [h1 EXCEPT !.isDeleteModalOpen = FALSE, !.selectedImage = NoImage]

\* fetchImages after `await getImages()`; data is response.data.data.
imagesSettled(h, result, data) ==
  LET h1 == CASE result = "ok"      -> [h EXCEPT !.images = data]
              [] result = "refused" -> [h EXCEPT !.errors = "Failed to load images"]
              [] OTHER              -> [h EXCEPT !.errors = "An error occurred while loading images"]
  IN [h1 EXCEPT !.isLoading = FALSE]

\* handleDeleteImage(image).
handleDeleteImage(h, image) ==
  [h EXCEPT !.selectedImage = image, !.isDeleteModalOpen = TRUE]

\* onClose of DeleteConfirmModal.
onCloseDelete(h) ==
  [h EXCEPT !.isDeleteModalOpen = FALSE, !.selectedImage = NoImage]

\* What the caller of apiClient does when its call has settled: the rest of
\* logout(), or the rest of the page's handler, with the server's side of a
\* call that succeeded.
afterCall(q, w, result) ==
  CASE q.kind = "logout" ->
         IF result = "ok" THEN logoutTeardown(w) ELSE w
    [] q.kind = "save" ->
         [w EXCEPT !.server = IF result = "ok" THEN changeOrder(@, q.body) ELSE @,
                   !.home = saveSettled(@, result)]
    [] q.kind = "delete" ->
         [w EXCEPT !.server = IF result = "ok"
                              THEN SelectSeq(@, LAMBDA i : i # q.body[1]) ELSE @,
                   !.home = deleteSettled(@, result, q.body[1])]
    [] q.kind = "images" ->
         [w EXCEPT !.home = imagesSettled(@, result, w.server)]
    [] OTHER -> w

\* The promise of the logical request settles: the caller gets result.  For
\* logout() the lines after the await run only when the call resolved.
Settle(q, w, result) ==
  [w |-> afterCall(q, w, result),
   q |-> [q EXCEPT !.pc = "done", !.result = result]]

\* Mutant: the _retry flag is not looked at.
shouldRetry_ignoresFlag(err, q) == err.status = 401

\* Mutant: every error with a response or without one starts the refresh.
shouldRetry_anyError(err, q) == ~q.retry

\* The response interceptor's guard for the refresh-and-resend branch.
shouldRetry(err, q) == err.status = 401 /\ ~q.retry

\* Mutant: an error that is not retried is swallowed, the caller's promise
\* never settles.
responseRejected_neverSettles(q, w, err, t) ==
  IF shouldRetry(err, q)
  THEN [w |-> w,
        q |-> Logged([q EXCEPT !.retry = TRUE, !.pc = "refresh401"],
                     "refresh", NoToken, t)]
  ELSE [w |-> w, q |-> [q EXCEPT !.pc = "pending"]]

\* Mutant: a 401 on the resend tears the session down as a failed refresh does.
responseRejected_clearsOnSecond401(q, w, err, t) ==
  IF shouldRetry(err, q)
  THEN [w |-> w,
        q |-> Logged([q EXCEPT !.retry = TRUE, !.pc = "refresh401"],
                     "refresh", NoToken, t)]
  ELSE IF err.status = 401
       THEN Settle(Logged(Logged(q, "toast", NoToken, t), "redirect", NoToken, t),
                   [setAuth([w EXCEPT !.ls.accessToken = NoToken], FALSE, NoEmail)
                      EXCEPT !.loc = "/login"],
                   err.code)
       ELSE Settle(q, w, err.code)

\* Response interceptor, rejected handler, up to its await: either the
\* request is marked retried and /refresh-token is called, or the error is
\* passed on to the caller.
responseRejected(q, w, err, t) ==
  IF shouldRetry(err, q)
  THEN [w |-> w,
        q |-> Logged([q EXCEPT !.retry = TRUE, !.pc = "refresh401"],
                     "refresh", NoToken, t)]
  ELSE Settle(q, w, err.code)

\* Mutant: every stored token is refreshed before sending, expired or not.
requestInterceptor_alwaysRefresh(q, w, t) ==
  LET token == w.ls.accessToken
      q1    == Logged(q, "read", token, t)
  IN IF token # NoToken
     THEN Logged([q1 EXCEPT !.pc = "preRefresh"], "refresh", NoToken, t)
     ELSE Logged([q1 EXCEPT !.pc = "sent"], "send", q1.hdr, t)

\* Mutant: single-flight: while another request's refresh is under way an
\* expired request makes no call of its own and waits for that result.
requestInterceptor_singleFlight(q, w, t) ==
  LET token == w.ls.accessToken
      q1    == Logged(q, "read", token, t)
  IN IF token # NoToken
     THEN IF isTokenExpired(token, t)
          THEN IF \E p \in Reqs : req[p].pc \in {"preRefresh", "refresh401"}
               THEN [q1 EXCEPT !.pc = "preRefresh"]
               ELSE Logged([q1 EXCEPT !.pc = "preRefresh"], "refresh", NoToken, t)
          ELSE Logged([q1 EXCEPT !.pc = "sent", !.hdr = token], "send", token, t)
     ELSE Logged([q1 EXCEPT !.pc = "sent"], "send", q1.hdr, t)

\* Mutant: a missing token starts a refresh as an expired one does.
requestInterceptor_refreshWhenAbsent(q, w, t) ==
  LET token == w.ls.accessToken
      q1    == Logged(q, "read", token, t)
  IN IF token = NoToken \/ isTokenExpired(token, t)
     THEN Logged([q1 EXCEPT !.pc = "preRefresh"], "refresh", NoToken, t)
     ELSE Logged([q1 EXCEPT !.pc = "sent", !.hdr = token], "send", token, t)

\* Request interceptor, fulfilled handler, up to its await or to the send.
requestInterceptor(q, w, t) ==
  LET token == w.ls.accessToken
      q1    == Logged(q, "read", token, t)
  IN IF token # NoToken
     THEN IF isTokenExpired(token, t)
          THEN Logged([q1 EXCEPT !.pc = "preRefresh"], "refresh", NoToken, t)
          ELSE Logged([q1 EXCEPT !.pc = "sent", !.hdr = token], "send", token, t)
     ELSE Logged([q1 EXCEPT !.pc = "sent"], "send", q1.hdr, t)

\* Mutant: the session is marked unauthenticated but the token is left.
clearOnPreSendFailure_keepsToken(w) ==
  [setAuth(w, FALSE, NoEmail) EXCEPT !.loc = "/login"]

\* The failure branch of the request interceptor: session cleared, token
\* removed, the browser sent to /login.
clearOnPreSendFailure(w) ==
  LET w1 == setAuth(w, FALSE, NoEmail)
  IN [w1 EXCEPT !.ls.accessToken = NoToken, !.loc = "/login"]

\* Mutant: a failed refresh is tried again instead of failing the request.
requestAfterRefresh_retriesRefresh(q, w, t) ==
  IF q.ret # NoToken
  THEN [w |-> w,
        q |-> Logged([q EXCEPT !.pc = "sent", !.hdr = q.ret], "send", q.ret, t)]
  ELSE [w |-> w,
        q |-> Logged([q EXCEPT !.pc = "preRefresh"], "refresh", NoToken, t)]

\* Mutant: after the failed refresh the session is cleared but the request
\* goes out all the same, without a header.
requestAfterRefresh_sendsAnyway(q, w, t) ==
  IF q.ret # NoToken
  THEN [w |-> w,
        q |-> Logged([q EXCEPT !.pc = "sent", !.hdr = q.ret], "send", q.ret, t)]
  ELSE [w |-> clearOnPreSendFailure(w),
        q |-> Logged([Logged(q, "redirect", NoToken, t) EXCEPT !.pc = "sent"],
                     "send", NoToken, t)]

\* Request interceptor after `await refreshAccessToken()` returned q.ret.
\* Its rejection skips the send and runs through the response interceptor's
\* rejected handler before it reaches the caller.
requestAfterRefresh(q, w, t) ==
  IF q.ret # NoToken
  THEN [w |-> w,
        q |-> Logged([q EXCEPT !.pc = "sent", !.hdr = q.ret], "send", q.ret, t)]
  ELSE responseRejected(Logged(q, "redirect", NoToken, t),
                        clearOnPreSendFailure(w), SessionExpired, t)

\* Mutant: the redirect happens but the stored token is left behind.
clearOn401Failure_keepsToken(w) ==
  [setAuth(w, FALSE, NoEmail) EXCEPT !.loc = "/login"]

\* The failure branch of the response interceptor.
clearOn401Failure(w) ==
  LET w1 == setAuth([w EXCEPT !.ls.accessToken = NoToken], FALSE, NoEmail)
  IN [w1 EXCEPT !.loc = "/login"]

\* Response interceptor after `await refreshAccessToken()` returned q.ret:
\* the resend apiClient(originalRequest) runs the request interceptor again.
responseAfterRefresh(q, w, t) ==
  IF q.ret # NoToken
  THEN [w |-> w,
        q |-> requestInterceptor([q EXCEPT !.hdr = q.ret], w, t)]
  ELSE Settle(Logged(Logged(q, "toast", NoToken, t), "redirect", NoToken, t),
              clearOn401Failure(w), "401")

\* One completion handler of /refresh-token as a whole: refreshAccessToken()
\* from the answer on, then the interceptor that awaited it (q.pc tells
\* which), all in one turn of the event loop.
refreshHandled(q, w, ans, t) ==
  LET out == refreshAccessToken(w, ans)
      q1  == [q EXCEPT !.ret = out.ret]
  IN IF q.pc = "preRefresh"
     THEN requestAfterRefresh(q1, out.w, t)
     ELSE responseAfterRefresh(q1, out.w, t)

\* ------------------------------------------------------------ router
\* <Routes> of App: the page a path renders, "none" when no <Route> matches
\* (there is no catch-all route).  The two parametrised routes are given
\* for the one e-mail of the model.
App(path) ==
  CASE path = "/"                    -> "HomePage"
    [] path = "/signup"              -> "Signup"
    [] path = "/verify-cache/u@x"    -> "Verification"
    [] path = "/signin"              -> "Login"
    [] path = "/forgot-password"     -> "ForgotPassword"
    [] path = "/reset-password/u@x"  -> "ResetPassword"
    [] OTHER                         -> "none"

\* ------------------------------------------------------------ sign-in
\* SignIn / VerifyCode after their plain axios call resolved with a body
\* whose data.accessToken is tok.
signedIn(w, tok, email) ==
  IF tok # NoToken
  THEN setAuth([w EXCEPT !.ls.accessToken = tok], TRUE, email)
  ELSE w

\* ------------------------------------------------------------ start-up
\* Mutant: the children are rendered whether authenticated or not.
PrivateRoute_rendersAlways(isAuthenticated) == "/"

\* Where the "/" route ends up: PrivateRoute renders the page when
\* authenticated and navigates to /signin otherwise.
PrivateRoute(isAuthenticated) == IF isAuthenticated THEN "/" ELSE "/signin"

\* create(persist(...)): the initial state is read from localStorage, the
\* persisted blob (if any) is merged over it and the result written back.
createStore(ls) ==
  LET st == IF ls.authStore.present
            THEN [isAuthenticated |-> ls.authStore.isAuthenticated,
                  email |-> ls.authStore.email]
            ELSE [isAuthenticated |-> ls.accessToken # NoToken,
                  email |-> ls.userEmail]
  IN Persist([ls |-> ls, store |-> st, loc |-> PrivateRoute(st.isAuthenticated)])

\* What an earlier visit can have left in localStorage: nothing, a signed-in
\* session (with a token of any age or shape), or a signed-out one.
StoredBefore ==
  {[accessToken |-> NoToken, userEmail |-> Null, authStore |-> NoBlob],
   [accessToken |-> NoToken, userEmail |-> Null,
    authStore |-> [present |-> TRUE, isAuthenticated |-> FALSE, email |-> Null]]}
  \cup
  {[accessToken |-> tok, userEmail |-> UserEmail,
    authStore |-> [present |-> TRUE, isAuthenticated |-> TRUE, email |-> UserEmail]] :
     tok \in {Token(1, "jwt", 0), Token(1, "jwt", 1),
              Token(1, "noexp", 0), Token(1, "garbage", 0)}}

\* The application has started; n slots are open for requests.
Started(n) ==
  \E ls \in StoredBefore :
    LET w == createStore(ls)
    IN /\ localStorage = w.ls
       /\ store = w.store
       /\ location = w.loc
       /\ now = 0
       /\ nextId = 2
       /\ req = [r \in Reqs |-> IF r <= n THEN NewReq ELSE OffReq]
       /\ home = HomeInit
       /\ server = [i \in ImageIds |-> i]

Init == Started(MaxReqs)

InitConc == Started(MaxConc)

\* ------------------------------------------------------------ the server
\* Tokens the server can put in its next answer: a fresh string whose exp,
\* read on the client's clock, is already reached or one second ahead.
Issuable ==
  IF nextId <= MaxTok + 1
  THEN {Token(nextId, "jwt", e) : e \in {now, now + 1}}
  ELSE {}

\* Answers to /refresh-token: success with a token; an error status or no
\* answer; a 2xx body that reports failure; a 2xx body without a token.
RefreshAnswers ==
  {RefreshAnswer(TRUE, TRUE, tok) : tok \in Issuable}
  \cup {RefreshAnswer(FALSE, FALSE, NoToken),
        RefreshAnswer(TRUE, FALSE, NoToken),
        RefreshAnswer(TRUE, TRUE, NoToken)}

\* Answers to the request itself: 200, 401, another error status, none.
Statuses == {200, 401, 500, 0}

Apply(out, r, ans) ==
  /\ localStorage' = out.w.ls
  /\ store' = out.w.store
  /\ location' = out.w.loc
  /\ req' = [req EXCEPT ![r] = out.q]
  /\ nextId' = IF ans.accessToken # NoToken THEN nextId + 1 ELSE nextId
  /\ home' = out.w.home
  /\ server' = out.w.server
  /\ UNCHANGED now

NoAnswer == RefreshAnswer(FALSE, FALSE, NoToken)

\* ------------------------------------------------------------ actions
\* A settled promise runs its continuation in the same turn of the event
\* loop, before any other event is handled: while a request has just got
\* its refresh result or is "done", nothing else happens.  The caller's
\* return frees the slot.
Quiet == \A r \in Reqs : req[r].pc \notin {"preRefreshed", "refreshed401", "done"}

\* A caller invokes apiClient: getImages() and friends ("api"), or the
\* Header's handleLogout -> logout() ("logout"), which navigates at once.
Issue(r, k) ==
  /\ Quiet
  /\ req[r].pc = "idle"
  /\ \A p \in Reqs : p < r => req[p].pc # "idle"
  /\ k = "logout" => location = "/"     \* the Header is part of the "/" route only
  /\ LET w == IF k = "logout" THEN [World EXCEPT !.loc = "/signin"] ELSE World
     IN Apply([w |-> w,
               q |-> requestInterceptor([req[r] EXCEPT !.kind = k], w, now)],
              r, NoAnswer)

\* /refresh-token answers (or fails): refreshAccessToken() runs to its
\* return; the interceptor that awaits it goes on in the same turn.
RefreshAnswered(r, ans) ==
  /\ Quiet
  /\ req[r].pc \in {"preRefresh", "refresh401"}
  /\ LET out == refreshAccessToken(World, ans)
         q   == [req[r] EXCEPT !.ret = out.ret,
                               !.pc = IF @ = "preRefresh" THEN "preRefreshed"
                                                          ELSE "refreshed401"]
     IN Apply([w |-> out.w,
               q |-> Logged(q, IF out.ret # NoToken THEN "refreshOk" ELSE "refreshFail",
                            out.ret, now)],
              r, ans)

\* The request interceptor goes on after its await.
ContinueRequest(r) ==
  /\ req[r].pc = "preRefreshed"
  /\ Apply(requestAfterRefresh(req[r], World, now), r, NoAnswer)

\* The response interceptor goes on after its await.
ContinueResponse(r) ==
  /\ req[r].pc = "refreshed401"
  /\ Apply(responseAfterRefresh(req[r], World, now), r, NoAnswer)

\* The server answers the request itself (or it fails without an answer).
Answer(r, status) ==
  /\ Quiet
  /\ req[r].pc = "sent"
  /\ Apply(IF status = 200
           THEN Settle(Logged(req[r], "ok", NoToken, now), World, "ok")
           ELSE responseRejected(Logged(req[r], HttpError(status).code, NoToken, now),
                                 World, HttpError(status), now),
           r, NoAnswer)

\* /signin answers with a token and the e-mail; the page navigates to "/".
SignIn(tok) ==
  LET w == signedIn(World, tok, UserEmail)
  IN /\ Quiet
     /\ localStorage' = w.ls
     /\ store' = w.store
     /\ location' = "/"
     /\ nextId' = nextId + 1
     /\ UNCHANGED <<now, req, home, server>>

\* /verify-cache answers with a token; the page navigates to "/".
VerifyCode(tok, email) ==
  LET w == signedIn(World, tok, email)
  IN /\ Quiet
     /\ localStorage' = w.ls
     /\ store' = w.store
     /\ location' = "/"
     /\ nextId' = nextId + 1
     /\ UNCHANGED <<now, req, home, server>>

\* The caller has its result; the slot can carry the next logical request.
Return(r) ==
  /\ req[r].pc = "done"
  /\ req' = [req EXCEPT ![r] = NewReq]
  /\ UNCHANGED <<localStorage, store, now, nextId, location, home, server>>

\* A second passes.
Tick ==
  /\ Quiet
  /\ now < MaxTime
  /\ now' = now + 1
  /\ UNCHANGED <<localStorage, store, nextId, location, req, home, server>>

Next ==
  \/ \E r \in Reqs, k \in {"api", "logout"} : Issue(r, k)
  \/ \E r \in Reqs, ans \in RefreshAnswers : RefreshAnswered(r, ans)
  \/ \E r \in Reqs : ContinueRequest(r)
  \/ \E r \in Reqs : ContinueResponse(r)
  \/ \E r \in Reqs, status \in Statuses : Answer(r, status)
  \/ \E tok \in Issuable : SignIn(tok)
  \/ \E tok \in Issuable : VerifyCode(tok, UserEmail)
  \/ \E r \in Reqs : Return(r)
  \/ Tick

Spec == Init /\ [][Next]_vars

\* The same client with MaxConc requests in flight at once.
SpecConc == InitConc /\ [][Next]_vars

\* Every network call is answered or times out (axios: timeout 10000), and
\* the event loop runs each queued handler and each settled promise's
\* continuation in the end.
Fairness ==
  \A r \in Reqs :
    /\ SF_vars(\E ans \in RefreshAnswers : RefreshAnswered(r, ans))
    /\ SF_vars(\E status \in Statuses : Answer(r, status))
    /\ WF_vars(ContinueRequest(r))
    /\ WF_vars(ContinueResponse(r))
    /\ WF_vars(Return(r))

SpecLive == Init /\ [][Next]_vars /\ Fairness

\* ------------------------------------------------------------ HomePage
\* The calls HomePage makes through apiClient.
HomeKinds == {"images", "save", "delete"}

\* HomePage is on the screen: the router is at its route and PrivateRoute
\* lets its children through.
HomeMounted ==
  /\ App(location) = "HomePage"
  /\ PrivateRoute(store.isAuthenticated) = location

\* A function of userApi.ts calls apiClient: the request interceptor runs up
\* to its await or to the send.
Call(r, k, body, w) ==
  /\ Quiet
  /\ req[r].pc = "idle"
  /\ \A p \in Reqs : p < r => req[p].pc # "idle"
  /\ Apply([w |-> w,
            q |-> requestInterceptor([req[r] EXCEPT !.kind = k, !.body = body], w, now)],
           r, NoAnswer)

\* The application has started with HomePage's useEffect run where the
\* page is mounted: isLoading is set and getImages() is under way.
InitHome ==
  \E ls \in StoredBefore :
    LET w == createStore(ls)
        mounted == App(w.loc) = "HomePage"
    IN /\ localStorage = w.ls
       /\ store = w.store
       /\ location = w.loc
       /\ now = 0
       /\ nextId = 2
       /\ server = [i \in ImageIds |-> i]
       /\ home = [HomeInit EXCEPT !.isLoading = mounted]
       /\ req = [r \in Reqs |->
                   IF r > MaxReqs THEN OffReq
                   ELSE IF r = 1 /\ mounted
                        THEN requestInterceptor([NewReq EXCEPT !.kind = "images"], w, 0)
                        ELSE NewReq]

\* A drag ends: active is the image dragged, over the image it was dropped
\* on (NoImage: dropped on none).
DragEnd(active, over) ==
  /\ Quiet
  /\ HomeMounted
  /\ active \in Range(home.images)
  /\ over \in Range(home.images) \cup {NoImage}
  /\ home' = handleDragEnd(home, active, over)
  /\ UNCHANGED <<localStorage, store, now, nextId, location, req, server>>

\* Save Order is clicked; the button is there while isOrderChanged.
SaveOrder(r) ==
  /\ HomeMounted
  /\ home.isOrderChanged
  /\ Call(r, "save", imageOrder(home.images), World)

\* The delete button of an image is clicked.
DeleteImage(image) ==
  /\ Quiet
  /\ HomeMounted
  /\ ~home.isDeleteModalOpen
  /\ image \in Range(home.images)
  /\ home' = handleDeleteImage(home, image)
  /\ UNCHANGED <<localStorage, store, now, nextId, location, req, server>>

\* The delete modal is cancelled.
CloseDelete ==
  /\ Quiet
  /\ HomeMounted
  /\ home.isDeleteModalOpen
  /\ home' = onCloseDelete(home)
  /\ UNCHANGED <<localStorage, store, now, nextId, location, req, server>>

\* handleConfirmDelete up to its await: nothing without a selectedImage.
ConfirmDelete(r) ==
  /\ HomeMounted
  /\ home.isDeleteModalOpen
  /\ IF home.selectedImage = NoImage
     THEN UNCHANGED vars
     ELSE Call(r, "delete", <<home.selectedImage>>, World)

\* The server answers 200 with {success: false} to a call of the page.
AnswerRefused(r) ==
  /\ Quiet
  /\ req[r].pc = "sent"
  /\ req[r].kind \in HomeKinds
  /\ Apply(Settle(Logged(req[r], "ok", NoToken, now), World, "refused"), r, NoAnswer)

NextHome ==
  \/ \E active \in ImageIds, over \in ImageIds \cup {NoImage} : DragEnd(active, over)
  \/ \E r \in Reqs : SaveOrder(r)
  \/ \E image \in ImageIds : DeleteImage(image)
  \/ CloseDelete
  \/ \E r \in Reqs : ConfirmDelete(r)
  \/ \E r \in Reqs, ans \in RefreshAnswers : RefreshAnswered(r, ans)
  \/ \E r \in Reqs : ContinueRequest(r)
  \/ \E r \in Reqs : ContinueResponse(r)
  \/ \E r \in Reqs, status \in Statuses : Answer(r, status)
  \/ \E r \in Reqs : AnswerRefused(r)
  \/ \E r \in Reqs : Return(r)

\* HomePage and its calls through apiClient.
SpecHome == InitHome /\ [][NextHome]_vars

\* ============================================================ properties
\* Helpers over a request's history.
Count(log, e) == Cardinality({i \in DOMAIN log : log[i].ev = e})

\* Index of the first event e of log, 0 if there is none.
FirstOf(log, e) ==
  IF \E i \in DOMAIN log : log[i].ev = e
  THEN CHOOSE i \in DOMAIN log : log[i].ev = e /\ \A j \in 1..(i - 1) : log[j].ev # e
  ELSE 0

\* Index of the first event e after position i, Len(log) + 1 if there is none.
NextOf(log, i, e) ==
  IF \E k \in (i + 1)..Len(log) : log[k].ev = e
  THEN CHOOSE k \in (i + 1)..Len(log) :
         log[k].ev = e /\ \A j \in (i + 1)..(k - 1) : log[j].ev # e
  ELSE Len(log) + 1

\* The calls that go out on the network.
NetworkCalls(log) == Count(log, "send") + Count(log, "refresh")

AnswerEvents == {"ok", "401", "http", "network"}

\* ------------------------------------------------------------ C1
\* C1: whenever the request interceptor reads a stored token whose exp is
\* reached (exp <= now), its next step is the call to /refresh-token, and the
\* request is then transmitted only with the token that refresh returned,
\* never with the expired one.
C1_ExpiredTokenNeverSent ==
  \A r \in Reqs :
    LET log == req[r].log
    IN \A i \in DOMAIN log :
         (log[i].ev = "read" /\ log[i].stale) =>
           /\ Len(log) > i
           /\ log[i + 1].ev = "refresh"
           /\ \A k \in (i + 1)..Len(log) :
                (log[k].ev = "send" /\ k < NextOf(log, i, "read")) =>
                  /\ log[k - 1].ev = "refreshOk"
                  /\ log[k].tok = log[k - 1].tok
                  /\ log[k].tok # log[i].tok

\* C1 witness: a request issued with an expired stored token went through
\* one refresh, was sent with the new token and succeeded.
C1_Witness ==
  \E r \in Reqs :
    LET log == req[r].log
    IN /\ req[r].pc = "done" /\ req[r].result = "ok"
       /\ Len(log) = 5
       /\ log[1].ev = "read" /\ log[1].stale
       /\ log[2].ev = "refresh"
       /\ log[4].ev = "send" /\ log[4].tok = log[3].tok

\* ------------------------------------------------------------ C2
\* C2 (as claimed): after the first 401 of a request and a successful
\* refresh, the request is resent with the token that refresh returned, and
\* what the caller gets is the answer to that resend.
C2_ResentWithNewToken ==
  \A r \in Reqs :
    LET log == req[r].log
        i   == FirstOf(log, "401")
    IN (/\ i > 0
        /\ Len(log) >= i + 2
        /\ log[i + 2].ev = "refreshOk"
        /\ req[r].pc # "refreshed401") =>
         /\ Len(log) >= i + 4
         /\ log[i + 4].ev = "send"
         /\ log[i + 4].tok = log[i + 2].tok
         /\ req[r].pc = "done" =>
              /\ Len(log) = i + 5
              /\ log[i + 5].ev \in AnswerEvents
              /\ req[r].result = log[i + 5].ev

\* ------------------------------------------------------------ C3
\* C3: a logical request is transmitted at most twice; when the resend is
\* answered 401 as well, nothing more is called and the caller gets that
\* 401 as its error.
C3_RetriedAtMostOnce ==
  \A r \in Reqs :
    LET log == req[r].log
    IN /\ Count(log, "send") <= 2
       /\ Count(log, "401") <= 2
       /\ Count(log, "401") = 2 =>
            /\ log[Len(log)].ev = "401"
            /\ req[r].pc = "done"
            /\ req[r].result = "401"

\* C3 witness: the resend was answered 401 too.
C3_Witness ==
  \E r \in Reqs : Count(req[r].log, "401") = 2 /\ Count(req[r].log, "send") = 2

\* ------------------------------------------------------------ C4
\* C4: when a refresh of a request failed, then at the moment the caller
\* gets its error the accessToken key is gone, isAuthenticated is false and
\* the request has redirected the browser to the login path exactly once.
C4_RefreshFailureTearsDown ==
  \A r \in Reqs :
    (req[r].pc = "done" /\ Count(req[r].log, "refreshFail") > 0) =>
      /\ req[r].result \in {"expired", "401"}
      /\ localStorage.accessToken = NoToken
      /\ ~store.isAuthenticated
      /\ Count(req[r].log, "redirect") = 1

\* C4 witness: a refresh triggered by a 401 failed and the caller has its error.
C4_Witness ==
  \E r \in Reqs :
    /\ req[r].pc = "done"
    /\ Count(req[r].log, "refreshFail") = 1
    /\ Count(req[r].log, "401") = 1

\* ------------------------------------------------------------ C5
\* C5 (as claimed): when the /logout call of logout() has failed, the three
\* persisted keys are gone and the session is reset all the same.
C5_LogoutClearsOnFailure ==
  \A r \in Reqs :
    (req[r].pc = "done" /\ req[r].kind = "logout" /\ req[r].result # "ok") =>
      /\ ~localStorage.authStore.present
      /\ localStorage.accessToken = NoToken
      /\ localStorage.userEmail = Null
      /\ store = [isAuthenticated |-> FALSE, email |-> Null]

\* ------------------------------------------------------------ C6
RefreshInProgress == \E r \in Reqs : req[r].pc \in {"preRefresh", "refresh401"}

\* C6 (as claimed): isAuthenticated implies a stored token that is not
\* expired, or a refresh in progress.
C6_AuthenticatedHasFreshToken ==
  store.isAuthenticated =>
    \/ /\ localStorage.accessToken # NoToken
       /\ ~isTokenExpired(localStorage.accessToken, now)
    \/ RefreshInProgress

\* C6 (amended): isAuthenticated implies that an accessToken is stored; it
\* may be expired with no refresh running, since expiry is looked at only
\* when the next request is issued.
C6_AuthenticatedHasToken ==
  store.isAuthenticated => localStorage.accessToken # NoToken

\* C6 witness: authenticated, the stored token expired, nothing refreshing.
C6_Witness ==
  /\ store.isAuthenticated
  /\ localStorage.accessToken # NoToken
  /\ Stale(localStorage.accessToken, now)
  /\ ~RefreshInProgress
  /\ now > 0

\* ------------------------------------------------------------ C7
\* The stored token read when the request was issued was a valid one.
IssuedWithValidToken(log) ==
  /\ Len(log) >= 1
  /\ log[1].ev = "read"
  /\ log[1].tok.kind = "jwt"
  /\ ~log[1].stale

\* C7 (as claimed): a request issued with a valid stored token carries
\* exactly that token, is preceded by no refresh, and makes one network call.
C7_ValidTokenOneCall ==
  \A r \in Reqs :
    LET log == req[r].log
    IN IssuedWithValidToken(log) =>
         /\ Len(log) >= 2
         /\ log[2].ev = "send"
         /\ log[2].tok = log[1].tok
         /\ NetworkCalls(log) = 1

\* C7 (amended): a request issued with a valid stored token carries exactly
\* that token and is preceded by no refresh; it makes one network call unless
\* that call is answered 401.
C7_ValidTokenOneCallUnless401 ==
  \A r \in Reqs :
    LET log == req[r].log
    IN IssuedWithValidToken(log) =>
         /\ Len(log) >= 2
         /\ log[2].ev = "send"
         /\ log[2].tok = log[1].tok
         /\ Count(log, "401") = 0 => NetworkCalls(log) = 1

\* C7 witness: such a request, answered 200 after its one call.
C7_Witness ==
  \E r \in Reqs :
    /\ IssuedWithValidToken(req[r].log)
    /\ req[r].pc = "done" /\ req[r].result = "ok"
    /\ Len(req[r].log) = 3

\* ------------------------------------------------------------ C8
\* C8: each time the request interceptor reads an expired stored token, one
\* call to /refresh-token follows at once and is the only one before the
\* request is sent or failed: on success the send follows, on failure the
\* redirect and the caller's error, with no second attempt.
C8_OneRefreshPerExpiredRead ==
  \A r \in Reqs :
    LET log == req[r].log
    IN \A i \in DOMAIN log :
         (log[i].ev = "read" /\ (log[i].stale \/ log[i].tok.kind = "garbage")) =>
           /\ Len(log) > i
           /\ log[i + 1].ev = "refresh"
           /\ Cardinality({k \in (i + 1)..Len(log) :
                             log[k].ev = "refresh" /\ k < NextOf(log, i, "send")}) = 1
           /\ Len(log) >= i + 2 => log[i + 2].ev \in {"refreshOk", "refreshFail"}
           /\ (Len(log) >= i + 3 /\ log[i + 2].ev = "refreshOk") =>
                log[i + 3].ev = "send"
           /\ (Len(log) >= i + 3 /\ log[i + 2].ev = "refreshFail") =>
                /\ log[i + 3].ev = "redirect"
                /\ Len(log) = i + 3
                /\ req[r].pc = "done"
                /\ req[r].result = "expired"

\* C8 witness: an expired token was read and the refresh that followed failed.
C8_Witness ==
  \E r \in Reqs :
    LET log == req[r].log
    IN /\ Len(log) = 4
       /\ log[1].ev = "read" /\ log[1].stale
       /\ log[3].ev = "refreshFail"
       /\ req[r].pc = "done"

\* ------------------------------------------------------------ C9
\* C9 (as claimed): from the first 401 of a request on, at most one call to
\* /refresh-token is made for it.
C9_OneRefreshAfter401 ==
  \A r \in Reqs :
    LET log == req[r].log
        i   == FirstOf(log, "401")
    IN i > 0 =>
         Cardinality({k \in (i + 1)..Len(log) : log[k].ev = "refresh"}) <= 1

\* ------------------------------------------------------------ C10
RefreshFailed(ans) == ~ans.ok \/ ~ans.success \/ ans.accessToken = NoToken

\* C10: refreshAccessToken() returns null on every failed answer and then
\* leaves localStorage and the session as they were; on success it returns
\* the new token, has stored it under accessToken and has set
\* isAuthenticated, touching nothing else but the persisted blob.
C10_RefreshFrame ==
  [][ /\ \A ans \in RefreshAnswers :
           RefreshFailed(ans) =>
             refreshAccessToken(World, ans) = [w |-> World, ret |-> NoToken]
      /\ \A r \in Reqs :
           (/\ req[r].pc \in {"preRefresh", "refresh401"}
            /\ req'[r].pc \in {"preRefreshed", "refreshed401"}) =>
             IF req'[r].ret = NoToken
             THEN localStorage' = localStorage /\ store' = store
             ELSE /\ localStorage'.accessToken = req'[r].ret
                  /\ localStorage'.userEmail = localStorage.userEmail
                  /\ store' = [store EXCEPT !.isAuthenticated = TRUE]
                  /\ location' = location ]_vars

\* C10 witness: a refresh has just returned null and the stored token and
\* the session are still there.
C10_Witness ==
  \E r \in Reqs :
    /\ req[r].pc \in {"preRefreshed", "refreshed401"}
    /\ req[r].ret = NoToken
    /\ localStorage.accessToken # NoToken
    /\ store.isAuthenticated

C12_OtherErrorsPassThrough ==
  [][ \A r \in Reqs :
        LET log == req[r].log
            n   == Len(log) + 1
        IN (/\ req[r].pc = "sent"
            /\ Len(req'[r].log) >= n
            /\ req'[r].log[n].ev \in {"http", "network"}) =>
             /\ req'[r].log = Append(log, req'[r].log[n])
             /\ req'[r].pc = "done"
             /\ req'[r].result = req'[r].log[n].ev
             /\ req'[r].retry = req[r].retry
             /\ localStorage' = localStorage
             /\ store' = store
             /\ location' = location ]_vars

\* C12 witness: a signed-in session whose request got an error status or no
\* answer; the caller has the error, token and session are in place.
C12_Witness ==
  \E r \in Reqs :
    /\ req[r].pc = "done"
    /\ req[r].kind = "api"
    /\ req[r].result \in {"http", "network"}
    /\ localStorage.accessToken # NoToken
    /\ store.isAuthenticated

\* ------------------------------------------------------------ C13
\* C13: a request issued while no accessToken is stored is sent at once
\* without an Authorization header, with no /refresh-token call before it,
\* and issuing it changes neither localStorage nor the session.
C13_NoTokenSentBare ==
  [][ \A r \in Reqs :
        (/\ req[r].pc = "idle"
         /\ req'[r].pc # "idle"
         /\ localStorage.accessToken = NoToken) =>
          /\ req'[r].pc = "sent"
          /\ req'[r].hdr = NoToken
          /\ req'[r].log = <<Ev("read", NoToken, now), Ev("send", NoToken, now)>>
          /\ localStorage' = localStorage
          /\ store' = store ]_vars

\* C13 witness: a request went out without a header while nothing was stored.
C13_Witness ==
  \E r \in Reqs :
    LET log == req[r].log
    IN /\ req[r].pc = "sent"
       /\ Len(log) = 2
       /\ log[1].ev = "read" /\ log[1].tok = NoToken
       /\ log[2].ev = "send" /\ log[2].tok = NoToken
       /\ localStorage.accessToken = NoToken

\* ------------------------------------------------------------ C14
\* C14 (as claimed): when a refresh of a request failed, then after the
\* failure handling none of accessToken, userEmail and auth-store is in
\* localStorage.
C14_FailureRemovesAllKeys ==
  \A r \in Reqs :
    (req[r].pc = "done" /\ Count(req[r].log, "refreshFail") > 0) =>
      /\ localStorage.accessToken = NoToken
      /\ localStorage.userEmail = Null
      /\ ~localStorage.authStore.present

\* ------------------------------------------------------------ C15
\* C15 (as claimed): when logout() has completed after /logout succeeded,
\* none of auth-store, accessToken and userEmail is in localStorage and the
\* session is isAuthenticated = false, email = null.
C15_LogoutLeavesNoKey ==
  \A r \in Reqs :
    (req[r].pc = "done" /\ req[r].kind = "logout" /\ req[r].result = "ok") =>
      /\ ~localStorage.authStore.present
      /\ localStorage.accessToken = NoToken
      /\ localStorage.userEmail = Null
      /\ store = [isAuthenticated |-> FALSE, email |-> Null]

\* ------------------------------------------------------------ C16
\* The stored token is one the expiry check rejects.
StoredExpired ==
  /\ localStorage.accessToken # NoToken
  /\ isTokenExpired(localStorage.accessToken, now)

\* C16: no single flight.  A request issued while the stored token is
\* expired makes its own /refresh-token call, whatever refreshes of other
\* requests are under way; and when one request's refresh is answered, the
\* others that await theirs keep waiting for their own answer.
C16_EachRequestRefreshesItself ==
  [][ \A r \in Reqs :
        /\ (req[r].pc = "idle" /\ req'[r].pc # "idle" /\ StoredExpired) =>
              /\ req'[r].pc = "preRefresh"
              /\ req'[r].log = <<Ev("read", localStorage.accessToken, now),
                                 Ev("refresh", NoToken, now)>>
        /\ \A p \in Reqs \ {r} :
              (/\ req[p].pc \in {"preRefresh", "refresh401"}
               /\ req'[p].pc \notin {"preRefresh", "refresh401"}
               /\ req[r].pc = "preRefresh") =>
                req'[r] = req[r] ]_vars

\* C16 witness: two requests were issued on the same expired token and each
\* has its own /refresh-token call under way.
C16_Witness ==
  \E r, p \in Reqs :
    /\ r # p
    /\ req[r].pc = "preRefresh" /\ req[p].pc = "preRefresh"
    /\ Count(req[r].log, "refresh") = 1 /\ Count(req[p].log, "refresh") = 1
    /\ req[r].log[1].tok = req[p].log[1].tok
    /\ req[r].log[1].stale

\* ------------------------------------------------------------ C17
\* C17 (as claimed): when two requests await their refresh at once, then
\* for any two answers the stored accessToken and the session are the same
\* whichever of the two completion handlers runs first.
C17_RefreshOrderIrrelevant ==
  \A r, p \in Reqs :
    (/\ r # p
     /\ req[r].pc \in {"preRefresh", "refresh401"}
     /\ req[p].pc \in {"preRefresh", "refresh401"}) =>
      \A a, b \in RefreshAnswers :
        LET rFirst == refreshHandled(req[p], refreshHandled(req[r], World, a, now).w, b, now).w
            pFirst == refreshHandled(req[r], refreshHandled(req[p], World, b, now).w, a, now).w
        IN /\ rFirst.ls.accessToken = pFirst.ls.accessToken
           /\ rFirst.store = pFirst.store
           /\ rFirst.ls.authStore = pFirst.ls.authStore

\* ------------------------------------------------------------ C18
\* C18 (as claimed): when a request has redirected the browser after a
\* failed refresh, the location is a path the router has a route for, and
\* that route renders the sign-in page.
C18_RedirectRendersSignIn ==
  \A r \in Reqs :
    (req[r].pc = "done" /\ Count(req[r].log, "redirect") > 0) =>
      App(location) = "Login"

\* ------------------------------------------------------------ C19
\* The stored token read at position i of log is one that cannot be decoded
\* or whose exp is reached.
ReadUnusable(log, i) ==
  /\ log[i].ev = "read"
  /\ (log[i].tok.kind = "garbage" \/ log[i].stale)

\* C19: the expiry check fails closed.  A token that cannot be decoded and
\* a token whose exp equals (or lies before) the current time are expired;
\* when the interceptor reads such a stored token it calls /refresh-token
\* next, never attaches that token to what it sends, and a failed refresh
\* ends in the teardown.
C19_ExpiryCheckFailsClosed ==
  /\ \A i \in 1..(MaxTok + 1), e \in 0..MaxTime :
       /\ isTokenExpired(Token(i, "garbage", e), now)
       /\ isTokenExpired(Token(i, "jwt", now), now)
       /\ e <= now => isTokenExpired(Token(i, "jwt", e), now)
  /\ \A r \in Reqs :
       LET log == req[r].log
       IN \A i \in DOMAIN log :
            ReadUnusable(log, i) =>
              /\ Len(log) > i
              /\ log[i + 1].ev = "refresh"
              /\ \A k \in (i + 1)..Len(log) :
                   (log[k].ev = "send" /\ k < NextOf(log, i, "read")) =>
                     log[k].tok # log[i].tok
              /\ (Len(log) >= i + 2 /\ log[i + 2].ev = "refreshFail"
                  /\ req[r].pc = "done") =>
                   /\ localStorage.accessToken = NoToken
                   /\ ~store.isAuthenticated

\* C19 witness: a stored token that cannot be decoded was read, refreshed
\* away, and the request went out with the new token.
C19_Witness ==
  \E r \in Reqs :
    LET log == req[r].log
    IN /\ Len(log) >= 4
       /\ log[1].ev = "read" /\ log[1].tok.kind = "garbage"
       /\ log[2].ev = "refresh"
       /\ log[3].ev = "refreshOk"
       /\ log[4].ev = "send" /\ log[4].tok = log[3].tok

\* ------------------------------------------------------------ C20
\* The request is with an interceptor or on the network.
InFlight(r) ==
  req[r].pc \in {"preRefresh", "preRefreshed", "sent", "refresh401", "refreshed401"}

\* C20: every request issued through apiClient reaches a terminal state,
\* its response or an error returned to the caller, provided every network
\* call is answered or times out.
C20_EveryRequestSettles ==
  \A r \in Reqs : InFlight(r) ~> (req[r].pc = "done")

\* C20 witness: a request that went through a 401, a refresh and a resend
\* has settled.
C20_Witness ==
  \E r \in Reqs :
    /\ req[r].pc = "done"
    /\ req[r].retry
    /\ Count(req[r].log, "refreshOk") >= 1
    /\ Count(req[r].log, "send") = 2

\* ------------------------------------------------------------ C21
\* The images of a list besides one, in their order.
Without(list, id) == SelectSeq(list, LAMBDA i : i # id)

\* C21: for the list displayed and any two of its images, handleDragEnd
\* with active # over gives a permutation of the list (same length, same
\* images, none twice) with the dragged image at the index the drop target
\* had and the others in their former relative order; with active = over
\* it changes neither the list nor isOrderChanged.
C21_DragPermutes ==
  /\ Cardinality(Range(home.images)) = Len(home.images)
  /\ \A active \in Range(home.images), over \in Range(home.images) :
       LET old == home.images
           h   == handleDragEnd(home, active, over)
       IN IF active # over
          THEN /\ Len(h.images) = Len(old)
               /\ Range(h.images) = Range(old)
               /\ Cardinality(Range(h.images)) = Len(h.images)
               /\ h.images[findIndex(old, over) + 1] = active
               /\ Without(h.images, active) = Without(old, active)
          ELSE /\ h.images = old
               /\ h.isOrderChanged = home.isOrderChanged

\* C21 witness: the last of three images was dragged onto the first.
C21_Witness ==
  /\ home.images = <<3, 1, 2>>
  /\ server = <<1, 2, 3>>
  /\ home.isOrderChanged

\* ------------------------------------------------------------ C22
\* Request r settles in this step.
Settles(r) == req[r].pc # "done" /\ req'[r].pc = "done"

\* Request r is issued in this step.
Issued(r) == req[r].pc = "idle" /\ req'[r].pc # "idle"

\* C22: a step that reorders the list without a call settling (a drag)
\* sets isOrderChanged and touches no request, nor the server, storage or
\* session; a /change-order request is issued only with isOrderChanged set
\* and changes nothing on the page; isOrderChanged goes back to false only
\* when a /change-order call settles with the server's success, and is left
\* as it was when that call fails or the server reports failure.
C22_SaveIsLazy ==
  [][ /\ (home'.images # home.images /\ \A r \in Reqs : ~Settles(r)) =>
           /\ home'.isOrderChanged
           /\ req' = req
           /\ server' = server
           /\ localStorage' = localStorage /\ store' = store
      /\ \A r \in Reqs :
           /\ (Issued(r) /\ req'[r].kind = "save") =>
                home.isOrderChanged /\ home' = home /\ server' = server
           /\ (Settles(r) /\ req[r].kind = "save" /\ req'[r].result # "ok") =>
                home'.isOrderChanged = home.isOrderChanged
           /\ (Settles(r) /\ req[r].kind = "save" /\ req'[r].result = "ok") =>
                ~home'.isOrderChanged
      /\ (home.isOrderChanged /\ ~home'.isOrderChanged) =>
           \E r \in Reqs :
             Settles(r) /\ req[r].kind = "save" /\ req'[r].result = "ok" ]_vars

\* C22 witness: a /change-order call has failed and Save Order is still
\* offered.
C22_Witness ==
  \E r \in Reqs :
    /\ req[r].pc = "done" /\ req[r].kind = "save"
    /\ req[r].result \in {"refused", "http", "network"}
    /\ home.isOrderChanged
    /\ home.images # server

\* ------------------------------------------------------------ C23
\* C23: the imageOrder that handleSaveOrder sends has one entry per image
\* displayed, the i-th with that image's _id and order i - 1: the orders are
\* exactly 0..n-1 and every displayed _id is there once.
C23_OrderIsPosition ==
  [][ \A r \in Reqs :
        (Issued(r) /\ req'[r].kind = "save") =>
          LET body == req'[r].body
              n    == Len(home.images)
          IN /\ Len(body) = n
             /\ \A i \in 1..n :
                  body[i].id = home.images[i] /\ body[i].order = i - 1
             /\ {body[i].order : i \in 1..n} = 0..(n - 1)
             /\ \A id \in Range(home.images) :
                  Cardinality({i \in 1..n : body[i].id = id}) = 1 ]_vars

\* C23 witness: the order of three images, rearranged, is on its way.
C23_Witness ==
  \E r \in Reqs :
    /\ req[r].kind = "save" /\ req[r].pc = "sent"
    /\ Len(req[r].body) = 3
    /\ home.images # server
    /\ byOrder(req[r].body) = home.images

\* ------------------------------------------------------------ C24
\* C24: between handlers isAuthenticated is true exactly when an
\* accessToken is in localStorage.
C24_AuthenticatedIffToken ==
  store.isAuthenticated <=> localStorage.accessToken # NoToken

\* C24 witness: a signed-in session whose pre-send refresh failed: the
\* caller has its error, flag and token are both gone.
C24_Witness ==
  \E r \in Reqs :
    /\ req[r].pc = "done" /\ req[r].result = "expired"
    /\ localStorage.userEmail = UserEmail
    /\ ~store.isAuthenticated
    /\ localStorage.accessToken = NoToken

\* ------------------------------------------------------------ C25
\* C25 (as claimed): when logout's /logout call is answered and its
\* teardown has run, the completion handler of a refresh that was under way
\* all along leaves the session logged out: no accessToken, not
\* authenticated.
C25_LogoutIsFinal ==
  \A r, p \in Reqs :
    (/\ r # p
     /\ req[r].kind = "logout" /\ req[r].pc = "sent"
     /\ req[p].pc \in {"preRefresh", "refresh401"}) =>
      \A ans \in RefreshAnswers :
        LET loggedOut == Settle(req[r], World, "ok").w
            later     == refreshHandled(req[p], loggedOut, ans, now).w
        IN /\ later.ls.accessToken = NoToken
           /\ ~later.store.isAuthenticated

\* ------------------------------------------------------------ C26
\* C26 (as claimed): when a /change-order call has settled with success and
\* isOrderChanged is false, the list displayed is in the order the server
\* holds.
C26_SavedMeansInSync ==
  \A r \in Reqs :
    (/\ req[r].pc = "done" /\ req[r].kind = "save" /\ req[r].result = "ok"
     /\ ~home.isOrderChanged) =>
      home.images = server

\* ------------------------------------------------------------ C27
\* C27: when the resend of a request is answered 401, that step leaves
\* localStorage, the session and the location as they were and hands the
\* 401 to the caller; the interceptor has issued no redirect and no
\* notification for that request.
C27_Second401LeavesSession ==
  [][ \A r \in Reqs :
        LET n == Len(req[r].log) + 1
        IN (/\ req[r].pc = "sent" /\ req[r].retry
            /\ Len(req'[r].log) >= n
            /\ req'[r].log[n].ev = "401") =>
             /\ localStorage' = localStorage
             /\ store' = store
             /\ location' = location
             /\ req'[r].pc = "done" /\ req'[r].result = "401"
             /\ Count(req'[r].log, "redirect") = 0
             /\ Count(req'[r].log, "toast") = 0 ]_vars

\* C27 witness: the resend was answered 401; the token of the refresh is
\* stored and the session authenticated.
C27_Witness ==
  \E r \in Reqs :
    LET log == req[r].log
    IN /\ req[r].pc = "done" /\ req[r].result = "401"
       /\ Count(log, "401") = 2
       /\ Count(log, "refreshOk") = 1
       /\ localStorage.accessToken = log[FirstOf(log, "refreshOk")].tok
       /\ store.isAuthenticated

\* ------------------------------------------------------------ C28
\* C28 (as claimed): a stored token that decodes but has no exp is treated
\* as expired: reading it, the interceptor calls /refresh-token next and
\* does not send it.
C28_NoExpIsExpired ==
  /\ \A i \in 1..(MaxTok + 1) : isTokenExpired(Token(i, "noexp", 0), now)
  /\ \A r \in Reqs :
       LET log == req[r].log
       IN \A i \in DOMAIN log :
            (log[i].ev = "read" /\ log[i].tok.kind = "noexp") =>
              /\ Len(log) > i
              /\ log[i + 1].ev = "refresh"

\* ------------------------------------------------------------ C29
\* C29: when a delete call settles, the image it named leaves the list if
\* the server answered success and the list is as it was otherwise, and in
\* both cases the modal is closed and the selection cleared; the list gets
\* shorter in no other step; a delete call is issued only for the image
\* selected, so none without a selection.
C29_DeleteAfterSuccess ==
  [][ /\ \A r \in Reqs :
           /\ (Settles(r) /\ req[r].kind = "delete") =>
                /\ home'.images = IF req'[r].result = "ok"
                                  THEN Without(home.images, req[r].body[1])
                                  ELSE home.images
                /\ ~home'.isDeleteModalOpen
                /\ home'.selectedImage = NoImage
           /\ (Issued(r) /\ req'[r].kind = "delete") =>
                /\ home.selectedImage # NoImage
                /\ req'[r].body = <<home.selectedImage>>
                /\ home' = home
      /\ Len(home'.images) < Len(home.images) =>
           \E r \in Reqs :
             Settles(r) /\ req[r].kind = "delete" /\ req'[r].result = "ok" ]_vars

\* C29 witness: a delete call failed; the three images are still listed,
\* the modal is closed, nothing is selected.
C29_Witness ==
  \E r \in Reqs :
    /\ req[r].pc = "done" /\ req[r].kind = "delete"
    /\ req[r].result \in {"refused", "http", "network"}
    /\ Len(home.images) = 3
    /\ req[r].body[1] \in Range(home.images)
    /\ ~home.isDeleteModalOpen
    /\ home.selectedImage = NoImage

\* ------------------------------------------------------------ C30
\* C30: HomePage is on the screen only while isAuthenticated, and only
\* then does it issue a call; while isAuthenticated is false the location
\* is not the page's route, PrivateRoute having replaced it with /signin.
C30_HomeOnlyAuthenticated ==
  [][ /\ App(location) = "HomePage" => store.isAuthenticated
      /\ PrivateRoute(FALSE) = "/signin"
      /\ \A r \in Reqs :
           (Issued(r) /\ req'[r].kind \in HomeKinds) =>
             store.isAuthenticated /\ HomeMounted ]_vars

\* C30 witness: the page is up, authenticated, and a call of it is issued
\* beyond the first.
C30_Witness ==
  \E r \in Reqs :
    /\ req[r].kind \in {"save", "delete"}
    /\ req[r].pc \in {"sent", "preRefresh"}
    /\ Len(req[r].log) = 2
    /\ store.isAuthenticated
    /\ location = "/"

====
